---- MODULE Spec2Model ----
(***************************************************************************)
(* A model of atlite/gis.py: grid construction (get_coords), reprojection  *)
(* of shape collections (reproject_shapes), grid cell areas                *)
(* (grid_cell_areas), the indicator matrix (compute_indicatormatrix), the  *)
(* axis normalisation (maybe_swap_spatial_dims, _as_transform) and the     *)
(* regridding of rasters (regrid).                                         *)
(*                                                                         *)
(* Geometry is modelled on an integer lattice.  A polygon is an axis       *)
(* parallel rectangle of unit height [x0, x1] x [0, 1]; x0 = x1 is a       *)
(* degenerate polygon of zero area.  Ratios of areas are kept as exact     *)
(* fractions <<num, den>>.  A coordinate reference system is identified by *)
(* its EPSG code; the transform between two of them is a translation of    *)
(* the lattice, the identity when the two codes are equal.                 *)
(***************************************************************************)
EXTENDS Integers, Sequences, FiniteSets, TLC

VARIABLES
    \* compute_indicatormatrix
    orig,        \* sequence of [id, geom]: the objects of the orig collection
    dest,        \* sequence of rectangles as passed by the caller
    orig_crs,
    dest_crs,
    i,           \* the row the outer loop is at (0-based count of rows done)
    indicator,   \* [row][col] -> <<num, den>>
    im_pc,       \* "loop" | "returned" | "raised"
    im_err

VARIABLES
    \* reproject_shapes
    shapes,      \* the collection passed: [kind, keys, vals]
    shapes0,     \* history: the collection as it was when the call was made
    crs1,
    crs2,
    rs_out,      \* the collection returned
    rs_warned,   \* a DeprecationWarning was issued
    rs_pc        \* "call" | "returned"

VARIABLES
    \* get_coords
    gc_x,        \* the slice x: [start, stop]
    gc_y,
    gc_dx,
    gc_dy,
    gc_out,      \* the dataset returned: [x, y]
    gc_pc,       \* "call" | "returned" | "raised"
    gc_err

VARIABLES
    \* grid_cell_areas
    cutout,      \* [crs, x, y, dx, dy]
    ga_out,      \* the array returned: [row][col] -> <<num, den>>
    ga_pc,       \* "call" | "returned" | "raised"
    ga_err

VARIABLES
    \* maybe_swap_spatial_dims and _as_transform
    sw_ds,       \* the dataset passed
    sw_out,      \* the dataset returned
    sw_twice,    \* the dataset returned for sw_out
    sw_tr,       \* what _as_transform derives from the axes of sw_out
    sw_pc        \* "call" | "swapped" | "twice" | "transform" | "raised"

VARIABLES
    \* regrid
    rg_ds,       \* the dataset passed
    rg_dimx,     \* the new x coordinates
    rg_dimy,     \* the new y coordinates
    rg_cuts,     \* the chunking of the non-spatial dimension (dask)
    rg_workers,  \* the number of workers of the executor
    rg_nds,      \* local: ds after maybe_swap_spatial_dims
    rg_src_tr,   \* local: src_transform
    rg_dst_tr,   \* local: dst_transform
    rg_task,     \* task -> "pending" | "running" | "done"
    rg_dst,      \* task -> the dst array of its _reproject call
    rg_writes,   \* history: [var][t] -> how often the slice was written
    rg_out,      \* the dataset returned
    rg_pc,       \* "call" | "compute" | "returned" | "raised"
    rg_err

imVars == <<orig, dest, orig_crs, dest_crs, i, indicator, im_pc, im_err>>
rsVars == <<shapes, shapes0, crs1, crs2, rs_out, rs_warned, rs_pc>>
gcVars == <<gc_x, gc_y, gc_dx, gc_dy, gc_out, gc_pc, gc_err>>
gaVars == <<cutout, ga_out, ga_pc, ga_err>>

swVars == <<sw_ds, sw_out, sw_twice, sw_tr, sw_pc>>
rgVars == <<rg_ds, rg_dimx, rg_dimy, rg_cuts, rg_workers, rg_nds, rg_src_tr,
            rg_dst_tr, rg_task, rg_dst, rg_writes, rg_out, rg_pc, rg_err>>

vars == <<imVars, rsVars, gcVars, gaVars, swVars, rgVars>>

\* what the actions of one operation leave alone
imOthers == <<rsVars, gcVars, gaVars, swVars, rgVars>>
rsOthers == <<imVars, gcVars, gaVars, swVars, rgVars>>
gcOthers == <<imVars, rsVars, gaVars, swVars, rgVars>>
gaOthers == <<imVars, rsVars, gcVars, swVars, rgVars>>
swOthers == <<imVars, rsVars, gcVars, gaVars, rgVars>>
rgOthers == <<imVars, rsVars, gcVars, gaVars, swVars>>

----------------------------------------------------------------------------
(* Bounds of the model *)

\* largest x coordinate of a polygon drawn as input
MaxCoord == 2
\* largest total number of polygons in orig and dest together
MaxPolys == 3
\* largest number of shapes in a collection passed to reproject_shapes
MaxShapes == 2
\* largest number of coordinates on an axis of a cutout or raster
MaxAxis == 2
\* largest number of 2D slices (variables x non-spatial positions) of a raster
MaxSlices == 3
\* largest number of workers of the executor
MaxWorkers == 2

----------------------------------------------------------------------------
(* Program constants *)

\* default CRS of compute_indicatormatrix, fast-path CRS of grid_cell_areas
EPSG4326 == 4326
\* ETRS LAEA, the equal-area CRS grid_cell_areas projects to
EPSG3035 == 3035
\* the canonical domain of get_coords
LonMin == -180
LonMax == 180
LatMin == -90
LatMax == 90
\* m2 per km2
SqMetresPerSqKm == 1000000

CRSs == {EPSG4326, EPSG3035}

----------------------------------------------------------------------------
(* Geometry *)

Min(a, b) == IF a <= b THEN a ELSE b
Max(a, b) == IF a >= b THEN a ELSE b

Rect(a, b) == [x0 |-> a, x1 |-> b]

\* the polygons inputs are drawn from, degenerate ones included
Polys == {r \in {Rect(a, b) : a \in 0..MaxCoord, b \in 0..MaxCoord} : r.x0 <= r.x1}

\* shapely: geom.area
Area(g) == g.x1 - g.x0

\* shapely: o.intersects(d), true also when the two only touch
Intersects(o, d) == Max(o.x0, d.x0) <= Min(o.x1, d.x1)

\* shapely: d.intersection(o).area
InterAreaNoClip(d, o) == Area(d)
InterArea(d, o) ==
    IF Max(o.x0, d.x0) < Min(o.x1, d.x1)
    THEN Min(o.x1, d.x1) - Max(o.x0, d.x0)
    ELSE 0

\* d lies inside o
Within(d, o) == o.x0 <= d.x0 /\ d.x1 <= o.x1

\* the bounding boxes of o and d intersect (the STRtree's candidate test)
BBoxIntersects(o, d) == Max(o.x0, d.x0) <= Min(o.x1, d.x1)

----------------------------------------------------------------------------
(* reproject_shapes *)

\* the lattice offset of a CRS relative to EPSG:4326
CrsOffset(crs) == IF crs = EPSG4326 THEN 0 ELSE 1

\* Transformer.from_crs(crs1, crs2).transform applied to one coordinate
Transform(c1, c2, x) == x + CrsOffset(c1) - CrsOffset(c2)

\* _reproject_shape: shapely.ops.transform over the vertices of a shape
ReprojectShape(c1, c2, shape) ==
    Rect(Transform(c1, c2, shape.x0), Transform(c1, c2, shape.x1))

\* the list branch of reproject_shapes
ReprojectList(seq, c1, c2) ==
    [k \in 1..Len(seq) |-> ReprojectShape(c1, c2, seq[k])]

Labels == {"a", "b", "c"}

\* sequences of length n over S without a repeated element
DistinctSeqs(S, n) ==
    {q \in [1..n -> S] : \A j, k \in 1..n : j # k => q[j] # q[k]}

\* the collections reproject_shapes is called with: a pandas Series (an
\* index of labels, which may repeat), a dict or OrderedDict (distinct
\* keys, in insertion order), a list or a tuple (no keys)
ShapeCollections(maxlen) ==
    UNION {
        {[kind |-> "Series", keys |-> ks, vals |-> vs] :
            ks \in [1..n -> Labels], vs \in [1..n -> Polys]} \cup
        {[kind |-> kd, keys |-> ks, vals |-> vs] :
            kd \in {"dict", "OrderedDict"},
            ks \in DistinctSeqs(Labels, n), vs \in [1..n -> Polys]} \cup
        {[kind |-> kd, keys |-> <<>>, vals |-> vs] :
            kd \in {"list", "tuple"}, vs \in [1..n -> Polys]}
        : n \in 0..maxlen}

\* the type of the collection each branch of reproject_shapes builds
OutKindAlwaysList(kind) == "list"
OutKind(kind) ==
    IF kind = "Series" THEN "Series"
    ELSE IF kind \in {"dict", "OrderedDict"} THEN "OrderedDict"
    ELSE "list"

\* the keys of the collection each branch builds: shapes.map keeps the
\* index, the OrderedDict is filled in the order of shapes.items(), a list
\* has none
OutKeys(coll) ==
    IF coll.kind \in {"Series", "dict", "OrderedDict"} THEN coll.keys ELSE <<>>

\* reproject_shapes(shapes, crs1, crs2)
ReprojectShapes(coll, c1, c2) ==
    [kind |-> OutKind(coll.kind),
     keys |-> OutKeys(coll),
     vals |-> ReprojectList(coll.vals, c1, c2)]

NoCollection == [kind |-> "none", keys |-> <<>>, vals |-> <<>>]

RSInit ==
    /\ shapes \in ShapeCollections(MaxShapes)
    /\ shapes0 = shapes
    /\ crs1 \in CRSs
    /\ crs2 \in CRSs
    /\ rs_out = NoCollection
    /\ rs_warned = FALSE
    /\ rs_pc = "call"

\* a call of reproject_shapes
RSReprojectShapes ==
    /\ UNCHANGED rsOthers
    /\ rs_pc = "call"
    /\ rs_out' = ReprojectShapes(shapes, crs1, crs2)
    /\ rs_pc' = "returned"
    /\ UNCHANGED <<shapes, shapes0, crs1, crs2, rs_warned>>

\* a call of the deprecated name reproject
RSReproject ==
    /\ UNCHANGED rsOthers
    /\ rs_pc = "call"
    /\ rs_warned' = TRUE
    /\ rs_out' = ReprojectShapes(shapes, crs1, crs2)
    /\ rs_pc' = "returned"
    /\ UNCHANGED <<shapes, shapes0, crs1, crs2>>

RSIdle ==
    /\ shapes = NoCollection /\ shapes0 = NoCollection
    /\ crs1 = EPSG4326 /\ crs2 = EPSG4326
    /\ rs_out = NoCollection /\ rs_warned = FALSE /\ rs_pc = "idle"

----------------------------------------------------------------------------
(* get_coords *)

\* np.arange(start, stop, step) for step # 0: empty for a negative step
\* when start < stop
RECURSIVE Arange(_, _, _)
Arange(start, stop, step) ==
    IF step <= 0 \/ start >= stop THEN <<>>
    ELSE <<start>> \o Arange(start + step, stop, step)

\* ds.sel(x=slice(lo, hi)) on a coordinate: the labels in [lo, hi]
SelectRange(coord, lo, hi) ==
    SelectSeq(coord, LAMBDA v : lo <= v /\ v <= hi)

\* slice(*sorted([s.start, s.stop]))
SortedSlice(sl) == <<Min(sl[1], sl[2]), Max(sl[1], sl[2])>>

\* the step sizes and slice bounds get_coords is called with
StepChoices == {-90, 0, 90, 180}
LonChoices == {-270, -180, -90, 90, 180, 270}
LatChoices == {-180, -90, 0, 90, 180}

NoGrid == [x |-> <<>>, y |-> <<>>]

GCInit ==
    /\ gc_x \in LonChoices \X LonChoices
    /\ gc_y \in LatChoices \X LatChoices
    /\ gc_dx \in StepChoices
    /\ gc_dy \in StepChoices
    /\ gc_out = NoGrid
    /\ gc_pc = "call"
    /\ gc_err = "none"

\* get_coords(x, y, time, dx, dy); the time axis (pd.date_range up to
\* "now") plays no part in the x and y axes and is left out
GCGetCoords ==
    /\ UNCHANGED gcOthers
    /\ gc_pc = "call"
    /\ IF gc_dx = 0 \/ gc_dy = 0
       THEN \* np.arange with a zero step raises: ZeroDivisionError for an
            \* int step, ValueError for a float step
            /\ gc_pc' = "raised"
            /\ gc_err' \in {"ZeroDivisionError", "ValueError"}
            /\ UNCHANGED gc_out
       ELSE /\ gc_out' =
                 [x |-> SelectRange(Arange(LonMin, LonMax, gc_dx),
                                    SortedSlice(gc_x)[1], SortedSlice(gc_x)[2]),
                  y |-> SelectRange(Arange(LatMin, LatMax, gc_dy),
                                    SortedSlice(gc_y)[1], SortedSlice(gc_y)[2])]
            /\ gc_pc' = "returned"
            /\ UNCHANGED gc_err
    /\ UNCHANGED <<gc_x, gc_y, gc_dx, gc_dy>>

GCIdle ==
    /\ gc_x = <<0, 0>> /\ gc_y = <<0, 0>> /\ gc_dx = 0 /\ gc_dy = 0
    /\ gc_out = NoGrid /\ gc_pc = "idle" /\ gc_err = "none"

----------------------------------------------------------------------------
(* grid_cell_areas *)

\* an evenly spaced axis of n coordinates
Axis(start, step, n) == [k \in 1..n |-> start + (k - 1) * step]

\* the cutouts grid_cell_areas is called with
Cutouts(maxlen) ==
    {[crs |-> c, x |-> Axis(x0, sx, nx), y |-> Axis(y0, sy, ny),
      dx |-> sx, dy |-> sy] :
        c \in CRSs, x0 \in {0, 1}, y0 \in {0, 1}, sx \in {1, 2}, sy \in {1, 2},
        nx \in 1..maxlen, ny \in 1..maxlen}

\* cutout.grid_cells: the rectangle of each cell, centred on (x, y) with
\* width dx and height dy, row by row; in half units of the lattice
GridCell(co, r, c) ==
    [x0 |-> 2 * co.x[c] - co.dx, x1 |-> 2 * co.x[c] + co.dx,
     y0 |-> 2 * co.y[r] - co.dy, y1 |-> 2 * co.y[r] + co.dy]

\* a grid cell reprojected from the cutout's CRS to EPSG:3035
GridCellReprojected(co, r, c) ==
    LET g == GridCell(co, r, c)
        off == 2 * (CrsOffset(co.crs) - CrsOffset(EPSG3035))
    IN  [x0 |-> g.x0 + off, x1 |-> g.x1 + off,
         y0 |-> g.y0 + off, y1 |-> g.y1 + off]

\* shapely: c.area of a rectangle
BoxArea(g) == (g.x1 - g.x0) * (g.y1 - g.y0)

\* the general path: np.array([c.area ...]).reshape(cutout.shape) / 1e6
AreasByReprojection(co) ==
    [r \in 1..Len(co.y) |->
        [c \in 1..Len(co.x) |->
            <<BoxArea(GridCellReprojected(co, r, c)), SqMetresPerSqKm>>]]

NoCutout == [crs |-> 0, x |-> <<>>, y |-> <<>>, dx |-> 0, dy |-> 0]

GAInit ==
    /\ cutout \in Cutouts(MaxAxis)
    /\ ga_out = <<>>
    /\ ga_pc = "call"
    /\ ga_err = "none"

\* grid_cell_areas(cutout)
GAGridCellAreas ==
    /\ UNCHANGED gaOthers
    /\ ga_pc = "call"
    /\ IF cutout.crs = EPSG4326
       THEN \* the formula reads dx, a name bound nowhere: NameError
            /\ ga_pc' = "raised"
            /\ ga_err' = "NameError"
            /\ UNCHANGED ga_out
       ELSE /\ ga_out' = AreasByReprojection(cutout)
            /\ ga_pc' = "returned"
            /\ UNCHANGED ga_err
    /\ UNCHANGED cutout

GAIdle ==
    /\ cutout = NoCutout /\ ga_out = <<>> /\ ga_pc = "idle" /\ ga_err = "none"

----------------------------------------------------------------------------
(* compute_indicatormatrix *)

\* a fraction num/den with den > 0, as the float area / o.area
Zero == <<0, 1>>
RatEq(p, q) == p[1] * q[2] = q[1] * p[2]
RatIsZero(p) == p[1] = 0
RatIsOne(p) == p[1] = p[2]

\* orig and dest are sequences whose iteration yields their polygons (a
\* list, a Series, the geometry column of a GeoDataFrame).
\* The orig collections: position k holds object orig[k].id with geometry
\* orig[k].geom.  An object listed twice has one id (that of its first
\* position) and so one geometry.
OrigsOfLen(n) ==
    {o \in [1..n -> [id : 1..n, geom : Polys]] :
        \A k \in 1..n :
            /\ o[k].id <= k
            /\ o[o[k].id].id = o[k].id
            /\ o[o[k].id].geom = o[k].geom}

DestsOfLen(n) == [1..n -> Polys]

\* sp.sparse.lil_matrix((len(dest), len(orig))): all entries zero
EmptyMatrix(nrows, ncols) == [r \in 1..nrows |-> [c \in 1..ncols |-> Zero]]

\* dest = reproject_shapes(dest, dest_crs, orig_crs)
DestReprojected == ReprojectList(dest, dest_crs, orig_crs)

TreeQueryWithin(d) == {k \in 1..Len(orig) : Within(orig[k].geom, d)}
\* tree = STRtree(orig); tree.query(d): the positions of the tree's entries
\* whose bounding box intersects that of d
TreeQuery(d) == {k \in 1..Len(orig) : BBoxIntersects(orig[k].geom, d)}

IdxReversed(oid) ==
    Len(orig) + 1 - CHOOSE k \in 1..Len(orig) :
        /\ orig[k].id = oid
        /\ \A m \in 1..Len(orig) : orig[m].id = oid => m <= k
\* idx = dict((id(o), i) for i, o in enumerate(orig)): a later position of
\* the same object replaces an earlier one
Idx(oid) ==
    CHOOSE k \in 1..Len(orig) :
        /\ orig[k].id = oid
        /\ \A m \in 1..Len(orig) : orig[m].id = oid => m <= k

\* the candidates of row r that pass o.intersects(d)
Hits(d) == {k \in TreeQuery(d) : Intersects(orig[k].geom, d)}

\* area / o.area raises ZeroDivisionError on a zero-area o
RowRaises(d) == \E k \in Hits(d) : Area(orig[k].geom) = 0

\* the row the inner loop leaves: indicator[i, j] = area / o.area for every
\* hit o, j = idx[id(o)]
RowOf(d) ==
    [c \in 1..Len(orig) |->
        IF \E k \in Hits(d) : Idx(orig[k].id) = c
        THEN LET k == CHOOSE k \in Hits(d) : Idx(orig[k].id) = c
             IN  <<InterArea(d, orig[k].geom), Area(orig[k].geom)>>
        ELSE Zero]

\* the spec's example: three adjacent unit squares and [0.5, 2.5] x [0, 1],
\* in half units
ExampleOrig ==
    <<[id |-> 1, geom |-> Rect(0, 2)], [id |-> 2, geom |-> Rect(2, 4)],
      [id |-> 3, geom |-> Rect(4, 6)]>>
ExampleDest == <<Rect(1, 5)>>

IMInit ==
    /\ \/ /\ \E n \in 0..MaxPolys : \E m \in 0..(MaxPolys - n) :
                /\ orig \in OrigsOfLen(n)
                /\ dest \in DestsOfLen(m)
          /\ orig_crs \in CRSs
          /\ dest_crs \in CRSs
       \/ /\ orig = ExampleOrig
          /\ dest = ExampleDest
          /\ orig_crs = EPSG4326
          /\ dest_crs = EPSG4326
    /\ i = 0
    /\ indicator = EmptyMatrix(Len(dest), Len(orig))
    /\ im_pc = "loop"
    /\ im_err = "none"

\* one pass of `for i, d in enumerate(dest)` with its whole inner loop.  A
\* division by zero ends the call: the matrix, filled so far, is dropped
\* with the frame and reaches no caller.
IMRow ==
    /\ UNCHANGED imOthers
    /\ im_pc = "loop"
    /\ i < Len(dest)
    /\ LET d == DestReprojected[i + 1]
       IN  IF RowRaises(d)
           THEN /\ im_pc' = "raised"
                /\ im_err' = "ZeroDivisionError"
                /\ UNCHANGED <<i, indicator>>
           ELSE /\ indicator' = [indicator EXCEPT ![i + 1] = RowOf(d)]
                /\ i' = i + 1
                /\ UNCHANGED <<im_pc, im_err>>
    /\ UNCHANGED <<orig, dest, orig_crs, dest_crs>>

\* return indicator
IMReturn ==
    /\ UNCHANGED imOthers
    /\ im_pc = "loop"
    /\ i = Len(dest)
    /\ im_pc' = "returned"
    /\ UNCHANGED <<orig, dest, orig_crs, dest_crs, i, indicator, im_err>>

IMIdle ==
    /\ orig = <<>> /\ dest = <<>> /\ orig_crs = EPSG4326 /\ dest_crs = EPSG4326
    /\ i = 0 /\ indicator = <<>> /\ im_pc = "idle" /\ im_err = "none"

----------------------------------------------------------------------------
(* maybe_swap_spatial_dims, _as_transform *)

Reverse(q) == [k \in 1..Len(q) |-> q[Len(q) + 1 - k]]

\* the value stored at row r, column c of the slice at position t of
\* variable v of a raster as passed by the caller: a token naming its place
Token(v, t, r, c) == 1000 * v + 100 * t + 10 * r + c

\* the value rasterio writes where the source has no pixel
NoData == 0

DTypes == {"float32", "float64"}

\* a raster as the caller passes it: a Dataset of nv variables or a
\* DataArray, each variable with nt positions along its non-spatial
\* dimension and a (y, x) slice at each
RasterOf(isds, xs, ys, nt, dts) ==
    [isDataset |-> isds, x |-> xs, y |-> ys, nt |-> nt,
     vars |-> [v \in 1..Len(dts) |->
                 [dtype |-> dts[v],
                  data |-> [t \in 1..nt |-> [r \in 1..Len(ys) |->
                              [c \in 1..Len(xs) |-> Token(v, t, r, c)]]]]]]

\* the axes rasters are given on: evenly spaced, ascending or descending
Axes(maxlen) == {Axis(0, st, n) : st \in {-1, 1}, n \in 1..maxlen}

\* ds.isel(x=slice(None, None, -1)) and/or the same for y
FlipData(data, flipx, flipy) ==
    [t \in 1..Len(data) |->
        LET rows == IF flipy THEN Reverse(data[t]) ELSE data[t]
        IN  [r \in 1..Len(rows) |->
                IF flipx THEN Reverse(rows[r]) ELSE rows[r]]]

Isel(ds, flipx, flipy) ==
    [ds EXCEPT !.x = IF flipx THEN Reverse(ds.x) ELSE ds.x,
               !.y = IF flipy THEN Reverse(ds.y) ELSE ds.y,
               !.vars = [v \in 1..Len(ds.vars) |->
                           [ds.vars[v] EXCEPT
                               !.data = FlipData(ds.vars[v].data, flipx, flipy)]]]

\* lx > rx
SwapX(ds) == ds.x[1] > ds.x[Len(ds.x)]
\* uy < ly
SwapYNorthUp(ds) == ds.y[Len(ds.y)] > ds.y[1]
SwapY(ds) == ds.y[Len(ds.y)] < ds.y[1]

\* maybe_swap_spatial_dims(ds, namex, namey)
MaybeSwapSpatialDims(ds) ==
    IF SwapX(ds) \/ SwapY(ds) THEN Isel(ds, SwapX(ds), SwapY(ds)) ELSE ds

\* _as_transform(x, y) divides by len(x) - 1 and len(y) - 1
AsTransformRaises(xs, ys) == Len(xs) = 1 \/ Len(ys) = 1

\* _as_transform(x, y): rio.transform.from_origin(lx, uy, dx, dy); the axes
\* are evenly spaced, so the quotients are exact
AsTransform(xs, ys) ==
    [west |-> xs[1], north |-> ys[Len(ys)],
     dx |-> (xs[Len(xs)] - xs[1]) \div (Len(xs) - 1),
     dy |-> (ys[Len(ys)] - ys[1]) \div (Len(ys) - 1)]

NoRaster == [isDataset |-> FALSE, x |-> <<>>, y |-> <<>>, nt |-> 0, vars |-> <<>>]
NoTransform == [west |-> 0, north |-> 0, dx |-> 0, dy |-> 0]

\* the axes maybe_swap_spatial_dims is called with
SwapAxes(maxlen) ==
    {Axis(a, st, n) : a \in {0, 1}, st \in {-2, -1, 1, 2}, n \in 1..maxlen}

SWInit ==
    /\ \E xs \in SwapAxes(MaxAxis), ys \in SwapAxes(MaxAxis), nt \in 1..MaxSlices :
           sw_ds = RasterOf(FALSE, xs, ys, nt, <<"float64">>)
    /\ sw_out = NoRaster
    /\ sw_twice = NoRaster
    /\ sw_tr = NoTransform
    /\ sw_pc = "call"

\* a call of maybe_swap_spatial_dims
SWMaybeSwap ==
    /\ UNCHANGED swOthers
    /\ sw_pc = "call"
    /\ sw_out' = MaybeSwapSpatialDims(sw_ds)
    /\ sw_pc' = "swapped"
    /\ UNCHANGED <<sw_ds, sw_twice, sw_tr>>

\* a second call, on what the first returned
SWMaybeSwapAgain ==
    /\ UNCHANGED swOthers
    /\ sw_pc = "swapped"
    /\ sw_twice' = MaybeSwapSpatialDims(sw_out)
    /\ sw_pc' = "twice"
    /\ UNCHANGED <<sw_ds, sw_out, sw_tr>>

\* _as_transform on the axes of what maybe_swap_spatial_dims returned, as
\* regrid calls it
SWAsTransform ==
    /\ UNCHANGED swOthers
    /\ sw_pc = "swapped"
    /\ IF AsTransformRaises(sw_out.x, sw_out.y)
       THEN sw_pc' = "raised" /\ UNCHANGED sw_tr
       ELSE sw_pc' = "transform" /\ sw_tr' = AsTransform(sw_out.x, sw_out.y)
    /\ UNCHANGED <<sw_ds, sw_out, sw_twice>>

SWIdle ==
    /\ sw_ds = NoRaster /\ sw_out = NoRaster /\ sw_twice = NoRaster
    /\ sw_tr = NoTransform /\ sw_pc = "idle"

----------------------------------------------------------------------------
(* regrid *)

\* the rasters regrid is called with: a DataArray, or a Dataset of any
\* number of variables, each of either element type
RECURSIVE SeqsUpTo(_, _)
SeqsUpTo(S, n) ==
    IF n = 0 THEN {<<>>}
    ELSE SeqsUpTo(S, n - 1) \cup [1..n -> S]

Rasters(maxslices, maxlen) ==
    UNION {
        {RasterOf(TRUE, xs, ys, nt, dts) :
            xs \in Axes(maxlen), ys \in Axes(maxlen),
            dts \in {q \in SeqsUpTo(DTypes, maxslices) : Len(q) * nt <= maxslices}}
        \cup
        {RasterOf(FALSE, xs, ys, nt, <<dt>>) :
            xs \in Axes(maxlen), ys \in Axes(maxlen), dt \in DTypes}
        : nt \in 1..maxslices}

\* the new coordinates regrid is called with: ascending, descending, or a
\* single coordinate
DestAxes == {<<0, 1>>, <<1, 0>>, <<0, 2>>, <<1>>}

\* the chunk (1, 2, ...) holding position t when the non-spatial dimension
\* is cut after every position in cuts
ChunkOf(t, cuts) == 1 + Cardinality({c \in cuts : c < t})

\* the tasks of the graph apply_ufunc builds: one call of _reproject per
\* variable and chunk
Tasks(ds, cuts) ==
    {<<v, k>> : v \in 1..Len(ds.vars), k \in 1..(Cardinality(cuts) + 1)}

\* the positions a task's block holds
TimesOf(task, ds, cuts) == {t \in 1..ds.nt : ChunkOf(t, cuts) = task[2]}

\* the slice of the source a task resamples into position t of its dst
TaskSourceFirst(ds, v, t) == ds.vars[v].data[1]
TaskSource(ds, v, t) == ds.vars[v].data[t]

\* rio.warp.reproject of one (y, x) slice with the nearest kernel between
\* two grids of one CRS: each dst pixel takes the src pixel its centre falls
\* in, or NoData outside the source
Resample(src, st, dt, shape) ==
    [r \in 1..shape[1] |-> [c \in 1..shape[2] |->
        LET cs == (2 * (dt.west - st.west) + (2 * c - 1) * dt.dx) \div (2 * st.dx)
            rs == (2 * (st.north - dt.north) + (2 * r - 1) * dt.dy) \div (2 * st.dy)
        IN  IF 0 <= rs /\ rs < Len(src) /\ 0 <= cs /\ cs < Len(src[1])
            THEN src[rs + 1][cs + 1]
            ELSE NoData]]

DTypesOfFirst(ds) == IF ds.vars = <<>> THEN {} ELSE {ds.vars[1].dtype}
\* {da.dtype for da in data_vars}
DTypesOf(ds) == {ds.vars[v].dtype : v \in 1..Len(ds.vars)}

RGInit ==
    /\ rg_ds \in Rasters(MaxSlices, MaxAxis)
    /\ rg_dimx \in DestAxes
    /\ rg_dimy \in DestAxes
    /\ rg_cuts \in SUBSET (1..(rg_ds.nt - 1))
    /\ rg_workers \in 1..MaxWorkers
    /\ rg_nds = NoRaster
    /\ rg_src_tr = NoTransform
    /\ rg_dst_tr = NoTransform
    /\ rg_task = <<>>
    /\ rg_dst = <<>>
    /\ rg_writes = [v \in 1..Len(rg_ds.vars) |-> [t \in 1..rg_ds.nt |-> 0]]
    /\ rg_out = NoRaster
    /\ rg_pc = "call"
    /\ rg_err = "none"

\* regrid up to the call of apply_ufunc: the axes are normalised, the two
\* transforms derived, the element types checked and the task graph built
RGStart ==
    /\ UNCHANGED rgOthers
    /\ rg_pc = "call"
    /\ LET nds == MaybeSwapSpatialDims(rg_ds)
       IN  IF AsTransformRaises(nds.x, nds.y) \/ AsTransformRaises(rg_dimx, rg_dimy)
           THEN /\ rg_pc' = "raised"
                /\ rg_err' = "ZeroDivisionError"
                /\ UNCHANGED <<rg_nds, rg_src_tr, rg_dst_tr, rg_task, rg_dst>>
           ELSE IF Cardinality(DTypesOf(nds)) # 1
           THEN /\ rg_pc' = "raised"
                /\ rg_err' = "AssertionError"
                /\ UNCHANGED <<rg_nds, rg_src_tr, rg_dst_tr, rg_task, rg_dst>>
           ELSE /\ rg_nds' = nds
                /\ rg_src_tr' = AsTransform(nds.x, nds.y)
                /\ rg_dst_tr' = AsTransform(rg_dimx, rg_dimy)
                /\ rg_task' = [k \in Tasks(nds, rg_cuts) |-> "pending"]
                /\ rg_dst' = [k \in Tasks(nds, rg_cuts) |-> "unallocated"]
                /\ rg_pc' = "compute"
                /\ UNCHANGED rg_err
    /\ UNCHANGED <<rg_ds, rg_dimx, rg_dimy, rg_cuts, rg_workers, rg_writes, rg_out>>

\* a free worker takes a pending task: _reproject allocates its dst
RGTaskStart(task) ==
    /\ UNCHANGED rgOthers
    /\ rg_pc = "compute"
    /\ rg_task[task] = "pending"
    /\ Cardinality({k \in DOMAIN rg_task : rg_task[k] = "running"}) < rg_workers
    /\ rg_task' = [rg_task EXCEPT ![task] = "running"]
    /\ rg_dst' = [rg_dst EXCEPT ![task] = "empty"]
    /\ UNCHANGED <<rg_ds, rg_dimx, rg_dimy, rg_cuts, rg_workers, rg_nds,
                   rg_src_tr, rg_dst_tr, rg_writes, rg_out, rg_pc, rg_err>>

\* rio.warp.reproject fills the task's dst, slice by slice, and the task
\* returns it
RGTaskFinish(task) ==
    /\ UNCHANGED rgOthers
    /\ rg_pc = "compute"
    /\ rg_task[task] = "running"
    /\ rg_dst' = [rg_dst EXCEPT ![task] =
           [t \in TimesOf(task, rg_nds, rg_cuts) |->
               Resample(TaskSource(rg_nds, task[1], t), rg_src_tr, rg_dst_tr,
                        <<Len(rg_dimy), Len(rg_dimx)>>)]]
    /\ rg_writes' = [rg_writes EXCEPT ![task[1]] =
           [t \in 1..rg_nds.nt |->
               IF t \in TimesOf(task, rg_nds, rg_cuts) THEN @[t] + 1 ELSE @[t]]]
    /\ rg_task' = [rg_task EXCEPT ![task] = "done"]
    /\ UNCHANGED <<rg_ds, rg_dimx, rg_dimy, rg_cuts, rg_workers, rg_nds,
                   rg_src_tr, rg_dst_tr, rg_out, rg_pc, rg_err>>

\* the blocks are put together, renamed and given the new coordinates
RGReturn ==
    /\ UNCHANGED rgOthers
    /\ rg_pc = "compute"
    /\ \A k \in DOMAIN rg_task : rg_task[k] = "done"
    /\ rg_out' =
           [isDataset |-> rg_nds.isDataset, x |-> rg_dimx, y |-> rg_dimy,
            nt |-> rg_nds.nt,
            vars |-> [v \in 1..Len(rg_nds.vars) |->
                        [dtype |-> rg_nds.vars[v].dtype,
                         data |-> [t \in 1..rg_nds.nt |->
                                     rg_dst[<<v, ChunkOf(t, rg_cuts)>>][t]]]]]
    /\ rg_pc' = "returned"
    /\ UNCHANGED <<rg_ds, rg_dimx, rg_dimy, rg_cuts, rg_workers, rg_nds,
                   rg_src_tr, rg_dst_tr, rg_task, rg_dst, rg_writes, rg_err>>

RGIdle ==
    /\ rg_ds = NoRaster /\ rg_dimx = <<>> /\ rg_dimy = <<>> /\ rg_cuts = {}
    /\ rg_workers = 0 /\ rg_nds = NoRaster /\ rg_src_tr = NoTransform
    /\ rg_dst_tr = NoTransform /\ rg_task = <<>> /\ rg_dst = <<>>
    /\ rg_writes = <<>> /\ rg_out = NoRaster /\ rg_pc = "idle"
    /\ rg_err = "none"

----------------------------------------------------------------------------
(* Specifications: one per operation of the module *)

InitIndicator == IMInit /\ RSIdle /\ GCIdle /\ GAIdle /\ SWIdle /\ RGIdle
NextIndicator == IMRow \/ IMReturn
SpecIndicator == InitIndicator /\ [][NextIndicator]_vars

InitReproject == RSInit /\ IMIdle /\ GCIdle /\ GAIdle /\ SWIdle /\ RGIdle
NextReproject == RSReprojectShapes \/ RSReproject
SpecReproject == InitReproject /\ [][NextReproject]_vars

InitCoords == GCInit /\ IMIdle /\ RSIdle /\ GAIdle /\ SWIdle /\ RGIdle
NextCoords == GCGetCoords
SpecCoords == InitCoords /\ [][NextCoords]_vars

InitAreas == GAInit /\ IMIdle /\ RSIdle /\ GCIdle /\ SWIdle /\ RGIdle
NextAreas == GAGridCellAreas
SpecAreas == InitAreas /\ [][NextAreas]_vars

InitSwap == SWInit /\ IMIdle /\ RSIdle /\ GCIdle /\ GAIdle /\ RGIdle
NextSwap == SWMaybeSwap \/ SWMaybeSwapAgain \/ SWAsTransform
SpecSwap == InitSwap /\ [][NextSwap]_vars

InitRegrid == RGInit /\ IMIdle /\ RSIdle /\ GCIdle /\ GAIdle /\ SWIdle
NextRegrid ==
    \/ RGStart
    \/ \E task \in DOMAIN rg_task : RGTaskStart(task)
    \/ \E task \in DOMAIN rg_task : RGTaskFinish(task)
    \/ RGReturn
SpecRegrid == InitRegrid /\ [][NextRegrid]_vars

----------------------------------------------------------------------------
(* Properties of compute_indicatormatrix *)

\* the documented precondition on orig: no two of its polygons overlap
NonOverlapping ==
    \A j, k \in 1..Len(orig) :
        j # k => InterArea(orig[j].geom, orig[k].geom) = 0

AllPositive == \A k \in 1..Len(orig) : Area(orig[k].geom) > 0

\* the dense pairwise reference
RefEntry(r, c) ==
    LET d == DestReprojected[r]
        o == orig[c].geom
    IN  IF InterArea(d, o) > 0 THEN <<InterArea(d, o), Area(o)>> ELSE Zero

\* dest[r] lies inside orig[j] and inside no other polygon of orig
InExactlyOne(r, j) ==
    /\ Within(DestReprojected[r], orig[j].geom)
    /\ \A k \in 1..Len(orig) :
           k # j => ~Within(DestReprojected[r], orig[k].geom)

\* C1: for mutually non-overlapping orig polygons of positive area, every
\* entry of the matrix (while it is built and when it is returned) lies in
\* [0, 1].
C1_EntriesInUnitInterval ==
    (NonOverlapping /\ AllPositive) =>
        \A r \in 1..Len(dest) : \A c \in 1..Len(orig) :
            /\ indicator[r][c][2] > 0
            /\ 0 <= indicator[r][c][1]
            /\ indicator[r][c][1] <= indicator[r][c][2]

\* C1 witness: a returned matrix over two or more non-overlapping positive
\* polygons that holds an entry strictly between 0 and 1 and an entry 1.
C1_Witness ==
    /\ im_pc = "returned"
    /\ NonOverlapping /\ AllPositive
    /\ Len(orig) >= 2
    /\ \E r \in 1..Len(dest) : \E c \in 1..Len(orig) :
           0 < indicator[r][c][1] /\ indicator[r][c][1] < indicator[r][c][2]
    /\ \E r \in 1..Len(dest) : \E c \in 1..Len(orig) :
           RatIsOne(indicator[r][c])

\* C2 as stated: if dest[r] (of positive area) lies inside exactly one
\* orig[j], row r of the returned matrix has its one nonzero entry at
\* column j, and it is 1.
C2_ContainedRowIsOne ==
    (im_pc = "returned" /\ NonOverlapping) =>
        \A r \in 1..Len(dest) : \A j \in 1..Len(orig) :
            (InExactlyOne(r, j) /\ Area(DestReprojected[r]) > 0) =>
                /\ RatIsOne(indicator[r][j])
                /\ \A c \in 1..Len(orig) : c # j => RatIsZero(indicator[r][c])

\* C2 amended: if dest[r] lies inside exactly one orig[j], row r of the
\* returned matrix is zero outside column j and its entry at column j is
\* area(dest[r]) / area(orig[j]), which is 1 exactly when dest[r] covers
\* orig[j].
C2_ContainedRowIsAreaRatio ==
    (im_pc = "returned" /\ NonOverlapping) =>
        \A r \in 1..Len(dest) : \A j \in 1..Len(orig) :
            InExactlyOne(r, j) =>
                /\ indicator[r][j][2] > 0
                /\ RatEq(indicator[r][j],
                         <<Area(DestReprojected[r]), Area(orig[j].geom)>>)
                /\ RatIsOne(indicator[r][j]) <=>
                       Area(DestReprojected[r]) = Area(orig[j].geom)
                /\ \A c \in 1..Len(orig) : c # j => RatIsZero(indicator[r][c])

\* C2 witness: a returned row whose polygon lies strictly inside one of two
\* or more orig polygons, with an entry strictly between 0 and 1.
C2_Witness ==
    /\ im_pc = "returned"
    /\ NonOverlapping
    /\ Len(orig) >= 2
    /\ \E r \in 1..Len(dest) : \E j \in 1..Len(orig) :
           /\ InExactlyOne(r, j)
           /\ 0 < Area(DestReprojected[r])
           /\ Area(DestReprojected[r]) < Area(orig[j].geom)
           /\ ~RatIsOne(indicator[r][j])

C4_DegenerateIsDefinedError ==
    im_pc = "raised" => im_err = "DegeneratePolygonError"

----------------------------------------------------------------------------
(* Properties of reproject_shapes *)

----------------------------------------------------------------------------
(* Properties of get_coords *)

BadStep == gc_dx <= 0 \/ gc_dy <= 0

RangeOutsideDomain ==
    \/ SortedSlice(gc_x)[2] < LonMin
    \/ SortedSlice(gc_x)[1] > LonMax
    \/ SortedSlice(gc_y)[2] < LatMin
    \/ SortedSlice(gc_y)[1] > LatMax

\* C8 as stated: get_coords fails with RangeError whenever dx <= 0 or
\* dy <= 0 or a requested range lies entirely outside the canonical domain;
\* it returns no grid then and raises no other error.
C8_RejectsBadRanges ==
    (gc_pc # "call" /\ (BadStep \/ RangeOutsideDomain)) =>
        (gc_pc = "raised" /\ gc_err = "RangeError")

----------------------------------------------------------------------------
(* Properties of grid_cell_areas *)

\* C9 as stated: grid_cell_areas returns for every grid, on either path and
\* without raising, one non-negative area per cell, laid out (y, x).
C9_AreasForEveryGrid ==
    ga_pc # "call" =>
        /\ ga_pc = "returned"
        /\ Len(ga_out) = Len(cutout.y)
        /\ \A r \in 1..Len(ga_out) :
               /\ Len(ga_out[r]) = Len(cutout.x)
               /\ \A c \in 1..Len(ga_out[r]) : ga_out[r][c][1] >= 0

----------------------------------------------------------------------------
(* Properties of maybe_swap_spatial_dims and _as_transform *)

First(q) == q[1]
Last(q) == q[Len(q)]

\* C10 as stated: after maybe_swap_spatial_dims the x axis is stored
\* ascending and the y axis descending.
C10_YDescendingAfterSwap ==
    sw_pc # "call" =>
        /\ First(sw_out.x) <= Last(sw_out.x)
        /\ First(sw_out.y) >= Last(sw_out.y)

\* C10 amended: after maybe_swap_spatial_dims the x axis and the y axis are
\* both stored ascending, for every orientation of the input: an axis is
\* reversed exactly when it is stored descending, the data dimensioned on a
\* reversed axis is reversed with it, an input with both axes ascending is
\* returned unchanged, a second application changes nothing, and the origin
\* _as_transform derives is (first x, last y), the smallest x and largest y.
C10_AxesAscendingAfterSwap ==
    sw_pc # "call" =>
        LET flipx == First(sw_ds.x) > Last(sw_ds.x)
            flipy == First(sw_ds.y) > Last(sw_ds.y)
            nx == Len(sw_ds.x)
            ny == Len(sw_ds.y)
        IN  /\ First(sw_out.x) <= Last(sw_out.x)
            /\ First(sw_out.y) <= Last(sw_out.y)
            /\ sw_out.x = IF flipx THEN Reverse(sw_ds.x) ELSE sw_ds.x
            /\ sw_out.y = IF flipy THEN Reverse(sw_ds.y) ELSE sw_ds.y
            /\ \A t \in 1..sw_ds.nt : \A r \in 1..ny : \A c \in 1..nx :
                   sw_out.vars[1].data[t][r][c] =
                       Token(1, t, IF flipy THEN ny + 1 - r ELSE r,
                                   IF flipx THEN nx + 1 - c ELSE c)
            /\ (~flipx /\ ~flipy) => sw_out = sw_ds
            /\ sw_pc = "twice" => sw_twice = sw_out
            /\ sw_pc = "transform" =>
                   /\ sw_tr.west = First(sw_out.x)
                   /\ sw_tr.north = Last(sw_out.y)
                   /\ \A k \in 1..nx : sw_tr.west <= sw_ds.x[k]
                   /\ \A k \in 1..ny : sw_tr.north >= sw_ds.y[k]

\* C10 witness: a raster stored with both axes descending has been
\* reoriented and its transform derived.
C10_Witness ==
    /\ sw_pc = "transform"
    /\ Len(sw_ds.x) >= 2 /\ Len(sw_ds.y) >= 2
    /\ First(sw_ds.x) > Last(sw_ds.x)
    /\ First(sw_ds.y) > Last(sw_ds.y)
    /\ sw_out # sw_ds
    /\ First(sw_out.y) < Last(sw_out.y)

----------------------------------------------------------------------------
(* Properties of regrid *)

\* every axis regrid derives a transform from has two coordinates or more,
\* as a grid with a step has
WellFormedAxes ==
    /\ Len(rg_ds.x) >= 2 /\ Len(rg_ds.y) >= 2
    /\ Len(rg_dimx) >= 2 /\ Len(rg_dimy) >= 2

NoSliceWritten ==
    \A v \in 1..Len(rg_writes) : \A t \in 1..Len(rg_writes[v]) :
        rg_writes[v][t] = 0

RegridSerial ==
    LET nds == MaybeSwapSpatialDims(rg_ds)
        st == AsTransform(nds.x, nds.y)
        dt == AsTransform(rg_dimx, rg_dimy)
    IN  [isDataset |-> rg_ds.isDataset, x |-> rg_dimx, y |-> rg_dimy,
         nt |-> rg_ds.nt,
         vars |-> [v \in 1..Len(rg_ds.vars) |->
                     [dtype |-> rg_ds.vars[v].dtype,
                      data |-> [t \in 1..rg_ds.nt |->
                                  Resample(nds.vars[v].data[t], st, dt,
                                           <<Len(rg_dimy), Len(rg_dimx)>>)]]]]

\* the raster passed is as the caller built it
SourceUntouched ==
    rg_ds = RasterOf(rg_ds.isDataset, rg_ds.x, rg_ds.y, rg_ds.nt,
                     [v \in 1..Len(rg_ds.vars) |-> rg_ds.vars[v].dtype])

\* C7: whatever the chunking into tasks, the order in which tasks run and
\* the number of workers, no slice is written more than once, a finished
\* task's block holds for each of its positions the resampling of that
\* position's source slice, the source raster is never changed, and what
\* regrid returns is what a serial execution returns, every slice written
\* exactly once.
C7_SchedulingIndependent ==
    rg_pc \in {"compute", "returned"} =>
        /\ SourceUntouched
        /\ \A v \in 1..Len(rg_writes) : \A t \in 1..Len(rg_writes[v]) :
               rg_writes[v][t] <= 1
        /\ \A task \in DOMAIN rg_task :
               rg_task[task] = "done" =>
                   \A t \in TimesOf(task, rg_nds, rg_cuts) :
                       /\ rg_writes[task[1]][t] = 1
                       /\ rg_dst[task][t] =
                              Resample(rg_nds.vars[task[1]].data[t], rg_src_tr,
                                       rg_dst_tr, <<Len(rg_dimy), Len(rg_dimx)>>)
        /\ rg_pc = "returned" =>
               /\ rg_out = RegridSerial
               /\ \A v \in 1..Len(rg_writes) : \A t \in 1..Len(rg_writes[v]) :
                      rg_writes[v][t] = 1

\* C7 witness: a raster cut into three tasks has been regridded by two
\* workers, and the result holds source values.
C7_Witness ==
    /\ rg_pc = "returned"
    /\ Cardinality(DOMAIN rg_task) >= 3
    /\ rg_workers >= 2
    /\ rg_cuts # {}
    /\ rg_nds # rg_ds
    /\ \E t \in 1..rg_out.nt : rg_out.vars[1].data[t][1][1] # NoData

====
